---- MODULE Spec2Model ----
(***************************************************************************)
(* Model of the group-creation scheduler (src/scheduler.py) together with  *)
(* the persistence functions it calls (src/db.py), the client registry     *)
(* (src/accounts.py) and the administrative handlers that run concurrently *)
(* on the same asyncio loop (src/admin_bot.py).                            *)
(*                                                                         *)
(* Time is counted in seconds.  The asyncio loop is cooperative: a         *)
(* coroutine runs without interruption from one await to the next, so each *)
(* action below is the code between two awaits.                            *)
(***************************************************************************)
EXTENDS Integers, Sequences, FiniteSets

\* ---------------------------------------------------------------- bounds
NumAccounts == 2
MaxClock == 40
MaxAdminOps == 1
MaxFaults == 2

\* ------------------------------------------------------ program constants
\* The three thresholds are imported from config.py, which sets their values;
\* the model takes values of the order of the tick period.
\* timedelta(minutes=GROUP_INTERVAL_MINUTES), in seconds
GROUP_INTERVAL == 30
\* timedelta(days=MAX_ACCOUNT_DAYS), in seconds
MAX_ACCOUNT_AGE == 35
\* MAX_GROUPS_PER_ACCOUNT
MAX_GROUPS_PER_ACCOUNT == 2
\* asyncio.sleep(5) while stopped
POLL_SLEEP == 5
\* asyncio.sleep(30) between ticks
LOOP_SLEEP == 30
\* asyncio.sleep(10) after a main-loop error
RECOVERY_SLEEP == 10
\* asyncio.sleep(1) after each message
MESSAGE_SLEEP == 1
\* len(generate_datetime_messages(dt))
NUM_MESSAGES == 10

\* config.ADMIN_IDS
ADMIN_IDS == <<1>>
\* the values e.seconds of a FloodWaitError takes in the model
FLOOD_SECONDS == {7}

\* SQL NULL / Python None
NULL == -1
\* a stored timestamp text that datetime.fromisoformat rejects
UNREADABLE == -2

AccountIds == 1..NumAccounts

VARIABLES
    SCHEDULER_RUNNING,  \* scheduler.py global flag
    db,                 \* accounts table: id -> row
    groups,             \* groups table, row id = position
    errors,             \* errors table
    alerts,             \* messages delivered to the operators by bot_client
    ACCOUNT_CLIENTS,    \* accounts.py registry: id -> client object (0: no entry)
    clock,              \* real time
    pc,                 \* where run_scheduler is
    accounts,           \* run_scheduler local: rows fetched by this tick
    now,                \* run_scheduler local
    index,              \* run_scheduler local: enumerate(accounts, start=1)
    group_db_id,        \* run_scheduler local
    sent_count,         \* run_scheduler local
    new_state,          \* toggle_account_active local (scheduler's call)
    wakeAt,             \* when the pending asyncio.sleep returns
    verdict,            \* outcome of the last eligibility evaluation
    lastCall,           \* last call made to the remote platform
    flood,              \* the last flood-wait: whose call, in which tick, until when
    admin_i,            \* run_scheduler local: position in ADMIN_IDS while notifying
    faults,             \* failures injected so far
    admin,              \* the admin handler in flight
    adminOps,           \* admin requests so far
    client,             \* run_scheduler local: the client get_or_create_client returned
    channel,            \* run_scheduler local: result.chats[0] of this attempt
    constructed,       \* get_or_create_client: whether the last call built a TelegramClient
    channels,           \* the groups created on the remote platform
    disqualified,       \* accounts the ChannelsTooMuchError clause has handled and
                        \* no administrator has activated since
    control             \* the last call of start_scheduler / stop_scheduler

vars == <<SCHEDULER_RUNNING, db, groups, errors, alerts, ACCOUNT_CLIENTS, clock,
          pc, accounts, now, index, group_db_id, sent_count, new_state, wakeAt,
          verdict, lastCall, flood, admin_i, faults, admin, adminOps,
          client, channel, constructed, channels, disqualified, control>>

dbVars == <<db, groups, errors>>
localVars == <<accounts, now, index, group_db_id, sent_count, new_state, admin_i>>
ghostVars == <<verdict, lastCall, flood>>
adminVars == <<admin, adminOps, control>>
remoteVars == <<client, channel, constructed, channels>>

\* ------------------------------------------------------------ evaluator
\* acc["created_groups_count"] or 0
OrZero(c) == IF c = NULL THEN 0 ELSE c

\* Variant: quota test with > instead of >=
EvaluateQuotaOffByOne(acc, t) ==
    IF OrZero(acc.created_groups_count) > MAX_GROUPS_PER_ACCOUNT THEN "quota_reached"
    ELSE IF acc.first_activity_at # NULL /\ t - acc.first_activity_at > MAX_ACCOUNT_AGE
         THEN "aged_out"
    ELSE IF acc.last_group_created_at # NULL /\ t - acc.last_group_created_at < GROUP_INTERVAL
         THEN "cooling_down"
    ELSE "eligible"

\* Variant: interval test before the age test
EvaluateIntervalFirst(acc, t) ==
    IF OrZero(acc.created_groups_count) >= MAX_GROUPS_PER_ACCOUNT THEN "quota_reached"
    ELSE IF acc.last_group_created_at # NULL /\ t - acc.last_group_created_at < GROUP_INTERVAL
         THEN "cooling_down"
    ELSE IF acc.first_activity_at # NULL /\ t - acc.first_activity_at > MAX_ACCOUNT_AGE
         THEN "aged_out"
    ELSE "eligible"

\* Variant: interval test with <= instead of <
EvaluateIntervalInclusive(acc, t) ==
    IF OrZero(acc.created_groups_count) >= MAX_GROUPS_PER_ACCOUNT THEN "quota_reached"
    ELSE IF acc.first_activity_at # NULL /\ t - acc.first_activity_at > MAX_ACCOUNT_AGE
         THEN "aged_out"
    ELSE IF acc.last_group_created_at # NULL /\ t - acc.last_group_created_at <= GROUP_INTERVAL
         THEN "cooling_down"
    ELSE "eligible"

\* Variant: the age test left out
EvaluateNoAge(acc, t) ==
    IF OrZero(acc.created_groups_count) >= MAX_GROUPS_PER_ACCOUNT THEN "quota_reached"
    ELSE IF acc.last_group_created_at # NULL /\ t - acc.last_group_created_at < GROUP_INTERVAL
         THEN "cooling_down"
    ELSE "eligible"

\* The three tests of the for-loop body, each ending in `continue`.
Evaluate(acc, t) ==
    IF OrZero(acc.created_groups_count) >= MAX_GROUPS_PER_ACCOUNT THEN "quota_reached"
    ELSE IF acc.first_activity_at # NULL /\ t - acc.first_activity_at > MAX_ACCOUNT_AGE
         THEN "aged_out"
    ELSE IF acc.last_group_created_at # NULL /\ t - acc.last_group_created_at < GROUP_INTERVAL
         THEN "cooling_down"
    ELSE "eligible"

\* datetime.fromisoformat(acc["first_activity_at"]) and
\* datetime.fromisoformat(acc["last_group_created_at"]), evaluated after the
\* quota test for the stored values that are not empty: ValueError on a text
\* that is no ISO timestamp
fromisoformat_raises(acc) ==
    /\ OrZero(acc.created_groups_count) < MAX_GROUPS_PER_ACCOUNT
    /\ \/ acc.first_activity_at = UNREADABLE
       \/ acc.last_group_created_at = UNREADABLE

\* ------------------------------------------------------------------ rows
FreshRow == [exists |-> TRUE, is_active |-> TRUE, created_groups_count |-> 0,
             first_activity_at |-> NULL, last_group_created_at |-> NULL]

\* An account that created c groups, the last one at time 0.
UsedRow(c) == [exists |-> TRUE, is_active |-> TRUE, created_groups_count |-> c,
               first_activity_at |-> 0, last_group_created_at |-> 0]

\* The accounts table at start: account 1 never acted, the others created one
\* group at time 0.
InitDb == [a \in AccountIds |-> IF a = 1 THEN FreshRow ELSE UsedRow(1)]

\* dict(row) of SELECT * FROM accounts
Row(id, r) == [id |-> id, is_active |-> r.is_active,
               created_groups_count |-> r.created_groups_count,
               first_activity_at |-> r.first_activity_at,
               last_group_created_at |-> r.last_group_created_at]

RECURSIVE SelectFrom(_, _, _)
SelectFrom(d, id, active_only) ==
    IF id > NumAccounts THEN <<>>
    ELSE (IF d[id].exists /\ (~active_only \/ d[id].is_active)
          THEN <<Row(id, d[id])>> ELSE <<>>) \o SelectFrom(d, id + 1, active_only)

\* Variant: the WHERE is_active = 1 clause is not applied
get_accounts_unfiltered(d, active_only) == SelectFrom(d, 1, FALSE)

\* SELECT * FROM accounts [WHERE is_active = 1], in rowid order
get_accounts(d, active_only) == SelectFrom(d, 1, active_only)

NoCall == [account_id |-> 0, op |-> "none", at |-> 0]
NoRow == [id |-> 0, is_active |-> FALSE, created_groups_count |-> 0,
          first_activity_at |-> NULL, last_group_created_at |-> NULL]
NoVerdict == [row |-> NoRow, now |-> 0, result |-> "none"]
NoFlood == [account_id |-> 0, tick |-> 0, until |-> 0]
NoAdmin == [op |-> "idle", account_id |-> 0, new_state |-> FALSE]
\* account_id not in ACCOUNT_CLIENTS
NoClient == 0

\* The object TelegramClient(...) returns: one that is not in the registry
NewClient ==
    CHOOSE n \in 1..NumAccounts :
        /\ \A a \in AccountIds : ACCOUNT_CLIENTS[a] # n
        /\ \A m \in 1..(n - 1) : \E a \in AccountIds : ACCOUNT_CLIENTS[a] = m

acc == accounts[index]
account_id == acc.id

Init ==
    /\ SCHEDULER_RUNNING = TRUE
    /\ db = InitDb
    /\ groups = <<>>
    /\ errors = <<>>
    /\ alerts = <<>>
    /\ ACCOUNT_CLIENTS = [a \in AccountIds |-> NoClient]
    /\ client = NoClient
    /\ channel = 0
    /\ constructed = FALSE
    /\ channels = <<>>
    /\ clock = 0
    /\ pc = "top"
    /\ accounts = <<>>
    /\ now = 0
    /\ index = 1
    /\ group_db_id = 0
    /\ sent_count = 0
    /\ new_state = FALSE
    /\ admin_i = 1
    /\ wakeAt = 0
    /\ verdict = NoVerdict
    /\ lastCall = NoCall
    /\ flood = NoFlood
    /\ faults = 0
    /\ admin = NoAdmin
    /\ adminOps = 0
    /\ disqualified = {}
    /\ control = "none"

\* ------------------------------------------------------- scheduler: tick
\* A call fails (the environment's choice, at most MaxFaults times).
Fault == faults < MaxFaults /\ faults' = faults + 1
NoFault == UNCHANGED faults

\* while True: if not SCHEDULER_RUNNING: await asyncio.sleep(5); continue
Top ==
    /\ pc = "top"
    /\ IF ~SCHEDULER_RUNNING
       THEN /\ pc' = "poll_sleep"
            /\ wakeAt' = clock + POLL_SLEEP
       ELSE /\ pc' = "get_accounts"
            /\ UNCHANGED wakeAt
    /\ UNCHANGED <<SCHEDULER_RUNNING, dbVars, alerts, ACCOUNT_CLIENTS, clock,
                   localVars, ghostVars, faults, adminVars, disqualified, remoteVars>>

\* accounts = await get_accounts(active_only=True); a failed read is raised
\* into the main-loop handler
GetAccounts ==
    /\ pc = "get_accounts"
    /\ \/ /\ NoFault
          /\ accounts' = get_accounts(db, TRUE)
          /\ pc' = "sync_accounts"
       \/ /\ Fault
          /\ pc' = "main_log"
          /\ UNCHANGED accounts
    /\ UNCHANGED <<SCHEDULER_RUNNING, dbVars, alerts, ACCOUNT_CLIENTS, clock,
                   now, index, group_db_id, sent_count, new_state, admin_i, wakeAt,
                   ghostVars, adminVars, disqualified, remoteVars>>

\* await sync_accounts(accounts); now = datetime.utcnow(); the for-loop starts.
\* accounts.py holds no body for sync_accounts: the call is taken to return or
\* raise without touching the tables, the registry or the clock.
SyncAccounts ==
    /\ pc = "sync_accounts"
    /\ \/ /\ NoFault
          /\ now' = clock
          /\ index' = 1
          /\ pc' = "loop"
       \/ /\ Fault
          /\ pc' = "main_log"
          /\ UNCHANGED <<now, index>>
    /\ UNCHANGED <<SCHEDULER_RUNNING, dbVars, alerts, ACCOUNT_CLIENTS, clock,
                   accounts, group_db_id, sent_count, new_state, admin_i, wakeAt,
                   ghostVars, adminVars, disqualified, remoteVars>>

\* Variant: the run-state is not re-read inside the for-loop
StoppedAtLoopHeadNever == FALSE

\* if not SCHEDULER_RUNNING: break
StoppedAtLoopHead == ~SCHEDULER_RUNNING

\* One pass of the for-loop header and the eligibility tests, up to the first
\* await of the body (get_or_create_client) or the `continue`.  The two
\* timestamps are parsed outside the try block of the body: a ValueError is
\* caught by the handler of the main loop.
LoopHead ==
    /\ pc = "loop"
    /\ \/ /\ index > Len(accounts) \/ StoppedAtLoopHead
          /\ pc' = "loop_sleep"
          /\ wakeAt' = clock + LOOP_SLEEP
          /\ UNCHANGED <<index, verdict>>
       \/ /\ index <= Len(accounts) /\ ~StoppedAtLoopHead
          /\ fromisoformat_raises(acc)
          /\ verdict' = [row |-> acc, now |-> now, result |-> "raised"]
          /\ pc' = "main_log"
          /\ UNCHANGED <<index, wakeAt>>
       \/ /\ index <= Len(accounts) /\ ~StoppedAtLoopHead
          /\ ~fromisoformat_raises(acc)
          /\ verdict' = [row |-> acc, now |-> now, result |-> Evaluate(acc, now)]
          /\ IF Evaluate(acc, now) = "eligible"
             THEN pc' = "connect" /\ UNCHANGED index
             ELSE pc' = "loop" /\ index' = index + 1
          /\ UNCHANGED wakeAt
    /\ UNCHANGED <<SCHEDULER_RUNNING, dbVars, alerts, ACCOUNT_CLIENTS, clock,
                   accounts, now, group_db_id, sent_count, new_state, admin_i,
                   lastCall, flood, faults, adminVars, disqualified, remoteVars>>

\* the pending asyncio.sleep returns
Wake ==
    /\ pc \in {"poll_sleep", "loop_sleep", "recovery_sleep"}
    /\ wakeAt <= MaxClock
    /\ clock' = wakeAt
    /\ pc' = "top"
    /\ UNCHANGED <<SCHEDULER_RUNNING, dbVars, alerts, ACCOUNT_CLIENTS,
                   localVars, wakeAt, ghostVars, faults, adminVars, disqualified, remoteVars>>

\* ------------------------------------------------- scheduler: one account
Called(op) == [account_id |-> account_id, op |-> op, at |-> clock]

\* dt.strftime("%Y-%m-%d"): the calendar day of dt
DateOf(t) == t \div 86400

\* f"ACC{account_index:02d} . G{group_number:03d} . {date_str}"
generate_group_title(account_index, group_number, dt) ==
    <<account_index, group_number, DateOf(dt)>>

\* created_groups = acc["created_groups_count"] or 0; group_number = created_groups + 1
group_number == OrZero(acc.created_groups_count) + 1
\* Variant: the title is numbered by the account's id
title_by_id == generate_group_title(account_id, group_number, now)

\* title = generate_group_title(index, group_number, now)
title == generate_group_title(index, group_number, now)

\* Variant: the flood-wait pause is skipped
FloodPauseNone(seconds) == clock

\* await asyncio.sleep(e.seconds) returns at
FloodPause(seconds) == clock + seconds

\* An exception raised inside the per-account try reaches its except clause.
Raise(kind, seconds) ==
    /\ Fault
    /\ pc' = CASE kind = "ChannelsTooMuchError" -> "ctm_toggle_read"
               [] kind = "FloodWaitError" -> "flood_sleep"
               [] OTHER -> "exc_log"
    /\ IF kind = "FloodWaitError"
       THEN /\ wakeAt' = FloodPause(seconds)
            /\ flood' = [account_id |-> account_id, tick |-> now, until |-> clock + seconds]
       ELSE UNCHANGED <<wakeAt, flood>>

\* Variant: the new client is entered in the registry before client.connect()
ConnectRegistersFirst ==
    /\ pc = "connect"
    /\ \/ /\ ACCOUNT_CLIENTS[account_id] # NoClient
          /\ client' = ACCOUNT_CLIENTS[account_id]
          /\ constructed' = FALSE
          /\ pc' = "create_channel"
          /\ UNCHANGED <<ACCOUNT_CLIENTS, lastCall, wakeAt, flood, faults>>
       \/ /\ ACCOUNT_CLIENTS[account_id] # NoClient
          /\ lastCall' = Called("connect")
          /\ constructed' = FALSE
          /\ UNCHANGED ACCOUNT_CLIENTS
          /\ \/ /\ client' = ACCOUNT_CLIENTS[account_id]
                /\ pc' = "create_channel"
                /\ UNCHANGED <<wakeAt, flood, faults>>
             \/ /\ Raise("Exception", 0)
                /\ UNCHANGED client
       \/ /\ ACCOUNT_CLIENTS[account_id] = NoClient
          /\ constructed' = TRUE
          /\ lastCall' = Called("connect")
          /\ ACCOUNT_CLIENTS' = [ACCOUNT_CLIENTS EXCEPT ![account_id] = NewClient]
          /\ \/ /\ client' = NewClient
                /\ pc' = "create_channel"
                /\ UNCHANGED <<wakeAt, flood, faults>>
             \/ /\ Raise("Exception", 0)
                /\ UNCHANGED client
    /\ UNCHANGED <<SCHEDULER_RUNNING, dbVars, alerts, clock, localVars, verdict, adminVars,
                   disqualified, channel, channels>>

\* client = await get_or_create_client(acc).  client.is_connected() is the
\* answer of the network layer at the moment of the call.
Connect ==
    /\ pc = "connect"
    /\ \/ \* in the registry and connected: returned as it is
          /\ ACCOUNT_CLIENTS[account_id] # NoClient
          /\ client' = ACCOUNT_CLIENTS[account_id]
          /\ constructed' = FALSE
          /\ pc' = "create_channel"
          /\ UNCHANGED <<ACCOUNT_CLIENTS, lastCall, wakeAt, flood, faults>>
       \/ \* in the registry, not connected: await client.connect(); return client
          /\ ACCOUNT_CLIENTS[account_id] # NoClient
          /\ lastCall' = Called("connect")
          /\ constructed' = FALSE
          /\ UNCHANGED ACCOUNT_CLIENTS
          /\ \/ /\ client' = ACCOUNT_CLIENTS[account_id]
                /\ pc' = "create_channel"
                /\ UNCHANGED <<wakeAt, flood, faults>>
             \/ /\ Raise("Exception", 0)
                /\ UNCHANGED client
       \/ \* not in the registry: client = TelegramClient(...); await
          \* client.connect(); ACCOUNT_CLIENTS[account_id] = client
          /\ ACCOUNT_CLIENTS[account_id] = NoClient
          /\ constructed' = TRUE
          /\ lastCall' = Called("connect")
          /\ \/ /\ ACCOUNT_CLIENTS' = [ACCOUNT_CLIENTS EXCEPT ![account_id] = NewClient]
                /\ client' = NewClient
                /\ pc' = "create_channel"
                /\ UNCHANGED <<wakeAt, flood, faults>>
             \/ /\ Raise("Exception", 0)
                /\ UNCHANGED <<ACCOUNT_CLIENTS, client>>
    /\ UNCHANGED <<SCHEDULER_RUNNING, dbVars, alerts, clock, localVars, verdict, adminVars,
                   disqualified, channel, channels>>

\* result = await client(CreateChannelRequest(title=title, ...))
CreateChannel ==
    /\ pc = "create_channel"
    /\ lastCall' = Called("create_channel")
    /\ \/ /\ channels' = Append(channels, [owner |-> account_id, client |-> client,
                                            title |-> title, tick |-> now, at |-> clock,
                                            messages |-> <<>>])
          /\ channel' = Len(channels) + 1
          /\ pc' = "create_group_record"
          /\ UNCHANGED <<wakeAt, flood, faults>>
       \/ /\ \/ Raise("ChannelsTooMuchError", 0)
             \/ \E s \in FLOOD_SECONDS : Raise("FloodWaitError", s)
             \/ Raise("Exception", 0)
          /\ UNCHANGED <<channels, channel>>
    /\ UNCHANGED <<SCHEDULER_RUNNING, dbVars, alerts, ACCOUNT_CLIENTS, clock, localVars,
                   verdict, adminVars, disqualified, client, constructed>>

\* chat_id = channel.id
chat_id == channel

\* Variant: the row is stamped with the time of the insert
create_group_record_at_clock(g, id, chat, t, created_at) ==
    Append(g, [account_id |-> id, chat_id |-> chat, title |-> t, created_at |-> clock,
               messages_sent |-> 0, deleted |-> FALSE])

\* INSERT INTO groups (account_id, chat_id, title, created_at, messages_sent)
\* VALUES (?, ?, ?, ?, 0)
create_group_record(g, id, chat, t, created_at) ==
    Append(g, [account_id |-> id, chat_id |-> chat, title |-> t, created_at |-> created_at,
               messages_sent |-> 0, deleted |-> FALSE])

\* group_db_id = await create_group_record(...); sent_count = 0
CreateGroupRecord ==
    /\ pc = "create_group_record"
    /\ \/ /\ groups' = create_group_record(groups, account_id, chat_id, title, now)
          /\ group_db_id' = Len(groups) + 1
          /\ sent_count' = 0
          /\ pc' = "send"
          /\ UNCHANGED <<wakeAt, flood, faults>>
       \/ /\ Raise("Exception", 0)
          /\ UNCHANGED <<groups, group_db_id, sent_count>>
    /\ UNCHANGED <<SCHEDULER_RUNNING, db, errors, alerts, ACCOUNT_CLIENTS, clock,
                   accounts, now, index, new_state, admin_i, verdict, lastCall, adminVars, disqualified, remoteVars>>

\* Variant: the weekday and the hour messages change places
generate_datetime_messages_swapped(dt) ==
    << [label |-> "Year", dt |-> dt], [label |-> "Month", dt |-> dt],
       [label |-> "Day", dt |-> dt], [label |-> "Hour", dt |-> dt],
       [label |-> "Weekday", dt |-> dt], [label |-> "Minute", dt |-> dt],
       [label |-> "Second", dt |-> dt], [label |-> "ISO", dt |-> dt],
       [label |-> "Unix", dt |-> dt], [label |-> "Summary", dt |-> dt] >>

\* The list generate_datetime_messages returns: each text is a label followed
\* by a field of dt.
generate_datetime_messages(dt) ==
    << [label |-> "Year", dt |-> dt], [label |-> "Month", dt |-> dt],
       [label |-> "Day", dt |-> dt], [label |-> "Weekday", dt |-> dt],
       [label |-> "Hour", dt |-> dt], [label |-> "Minute", dt |-> dt],
       [label |-> "Second", dt |-> dt], [label |-> "ISO", dt |-> dt],
       [label |-> "Unix", dt |-> dt], [label |-> "Summary", dt |-> dt] >>

\* messages = generate_datetime_messages(now)
messages == generate_datetime_messages(now)

\* for msg in messages: await client.send_message(entity=channel, message=msg);
\* sent_count += 1; await asyncio.sleep(1)
SendMessage ==
    /\ pc = "send"
    /\ lastCall' = Called("send_message")
    /\ \/ /\ clock + MESSAGE_SLEEP <= MaxClock
          /\ channels' = [channels EXCEPT ![channel].messages =
                                             Append(@, messages[sent_count + 1])]
          /\ sent_count' = sent_count + 1
          /\ clock' = clock + MESSAGE_SLEEP
          /\ pc' = IF sent_count + 1 = Len(messages) THEN "increment" ELSE "send"
          /\ UNCHANGED <<wakeAt, flood, faults>>
       \/ /\ \E s \in FLOOD_SECONDS : Raise("FloodWaitError", s)
          /\ UNCHANGED <<sent_count, clock, channels>>
       \/ /\ Raise("Exception", 0)
          /\ UNCHANGED <<sent_count, clock, channels>>
    /\ UNCHANGED <<SCHEDULER_RUNNING, dbVars, alerts, ACCOUNT_CLIENTS,
                   accounts, now, index, group_db_id, new_state, admin_i, verdict, adminVars,
                   disqualified, client, channel, constructed>>

\* Variant: the increment that reaches MAX_GROUPS_PER_ACCOUNT clears is_active
increment_account_groups_deactivating(d, id) ==
    IF d[id].exists /\ d[id].created_groups_count # NULL
    THEN [d EXCEPT ![id].created_groups_count = @ + 1,
                   ![id].is_active =
                       IF d[id].created_groups_count + 1 >= MAX_GROUPS_PER_ACCOUNT
                       THEN FALSE ELSE @]
    ELSE d

\* Variant: the counter is incremented twice
increment_account_groups_twice(d, id) ==
    IF d[id].exists /\ d[id].created_groups_count # NULL
    THEN [d EXCEPT ![id].created_groups_count = @ + 2]
    ELSE d

\* UPDATE accounts SET created_groups_count = created_groups_count + 1 WHERE id = ?
increment_account_groups(d, id) ==
    IF d[id].exists /\ d[id].created_groups_count # NULL
    THEN [d EXCEPT ![id].created_groups_count = @ + 1]
    ELSE d

\* await increment_account_groups(account_id)
IncrementAccountGroups ==
    /\ pc = "increment"
    /\ \/ /\ db' = increment_account_groups(db, account_id)
          /\ pc' = "update_activity"
          /\ UNCHANGED <<wakeAt, flood, faults>>
       \/ /\ Raise("Exception", 0)
          /\ UNCHANGED db
    /\ UNCHANGED <<SCHEDULER_RUNNING, groups, errors, alerts, ACCOUNT_CLIENTS, clock,
                   localVars, verdict, lastCall, adminVars, disqualified, remoteVars>>

\* Variant: first_activity_at is never written
update_account_activity_last_only(d, id, first, last) ==
    IF ~d[id].exists THEN d
    ELSE [d EXCEPT ![id].last_group_created_at = last]

\* UPDATE accounts SET [first_activity_at = ?,] last_group_created_at = ? WHERE id = ?
update_account_activity(d, id, first, last) ==
    IF ~d[id].exists THEN d
    ELSE IF first # NULL
         THEN [d EXCEPT ![id].first_activity_at = first,
                        ![id].last_group_created_at = last]
         ELSE [d EXCEPT ![id].last_group_created_at = last]

\* Variant: first_activity is taken to be now whatever the fetched row holds
first_activity_now == now

\* if not first_activity: first_activity = now
first_activity == IF acc.first_activity_at # NULL THEN acc.first_activity_at ELSE now

\* await update_account_activity(account_id, first_activity, now)
UpdateAccountActivity ==
    /\ pc = "update_activity"
    /\ \/ /\ db' = update_account_activity(db, account_id, first_activity, now)
          /\ pc' = "update_messages"
          /\ UNCHANGED <<wakeAt, flood, faults>>
       \/ /\ Raise("Exception", 0)
          /\ UNCHANGED db
    /\ UNCHANGED <<SCHEDULER_RUNNING, groups, errors, alerts, ACCOUNT_CLIENTS, clock,
                   localVars, verdict, lastCall, adminVars, disqualified, remoteVars>>

\* UPDATE groups SET messages_sent = ? WHERE id = ?
update_group_messages_sent(g, id, count) ==
    IF id \in 1..Len(g) /\ ~g[id].deleted
    THEN [g EXCEPT ![id].messages_sent = count]
    ELSE g

\* await update_group_messages_sent(group_db_id, sent_count); the body ends
UpdateGroupMessagesSent ==
    /\ pc = "update_messages"
    /\ \/ /\ groups' = update_group_messages_sent(groups, group_db_id, sent_count)
          /\ pc' = "loop"
          /\ index' = index + 1
          /\ UNCHANGED <<wakeAt, flood, faults>>
       \/ /\ Raise("Exception", 0)
          /\ UNCHANGED <<groups, index>>
    /\ UNCHANGED <<SCHEDULER_RUNNING, db, errors, alerts, ACCOUNT_CLIENTS, clock,
                   accounts, now, group_db_id, sent_count, new_state, admin_i,
                   verdict, lastCall, adminVars, disqualified, remoteVars>>

\* ---------------------------------------------------- scheduler: handlers
\* INSERT INTO errors (account_id, context, error_text, created_at)
log_error(e, context, id) == Append(e, [account_id |-> id, context |-> context])

\* toggle_account_active, first half: account = await get_account_by_id(id);
\* if not account: return None; new_state = 0 if account["is_active"] else 1
ToggleRead ==
    /\ pc = "ctm_toggle_read"
    /\ \/ /\ NoFault
          /\ db[account_id].exists
          /\ new_state' = ~db[account_id].is_active
          /\ pc' = "ctm_toggle_write"
       \/ /\ NoFault
          /\ ~db[account_id].exists
          /\ pc' = "ctm_log"
          /\ UNCHANGED new_state
       \/ /\ Fault
          /\ pc' = "main_log"
          /\ UNCHANGED new_state
    /\ UNCHANGED <<SCHEDULER_RUNNING, dbVars, alerts, ACCOUNT_CLIENTS, clock,
                   accounts, now, index, group_db_id, sent_count, admin_i, wakeAt,
                   ghostVars, adminVars, disqualified, remoteVars>>

\* UPDATE accounts SET is_active = ? WHERE id = ?
set_is_active(d, id, state) ==
    IF d[id].exists THEN [d EXCEPT ![id].is_active = state] ELSE d

\* toggle_account_active, second half
ToggleWrite ==
    /\ pc = "ctm_toggle_write"
    /\ \/ /\ NoFault
          /\ db' = set_is_active(db, account_id, new_state)
          /\ disqualified' = disqualified \cup {account_id}
          /\ pc' = "ctm_log"
       \/ /\ Fault
          /\ pc' = "main_log"
          /\ UNCHANGED <<db, disqualified>>
    /\ UNCHANGED <<SCHEDULER_RUNNING, groups, errors, alerts, ACCOUNT_CLIENTS, clock,
                   localVars, wakeAt, ghostVars, adminVars, remoteVars>>

\* await log_error("scheduler", "ChannelsTooMuchError", account_id)
LogChannelsTooMuch ==
    /\ pc = "ctm_log"
    /\ \/ /\ NoFault
          /\ errors' = log_error(errors, "scheduler", account_id)
          /\ pc' = "ctm_notify"
       \/ /\ Fault
          /\ pc' = "main_log"
          /\ UNCHANGED errors
    /\ UNCHANGED <<SCHEDULER_RUNNING, db, groups, alerts, ACCOUNT_CLIENTS, clock,
                   localVars, wakeAt, ghostVars, adminVars, disqualified, remoteVars>>

\* try: await bot_client.send_message(ADMIN_IDS[0], ...) except: pass
NotifyChannelsTooMuch ==
    /\ pc = "ctm_notify"
    /\ \/ /\ NoFault
          /\ Len(ADMIN_IDS) >= 1
          /\ alerts' = Append(alerts, [to |-> ADMIN_IDS[1], account_id |-> account_id,
                                       kind |-> "channel_limit"])
       \/ /\ Fault
          /\ UNCHANGED alerts
    /\ pc' = "loop"
    /\ index' = index + 1
    /\ UNCHANGED <<SCHEDULER_RUNNING, dbVars, ACCOUNT_CLIENTS, clock,
                   accounts, now, group_db_id, sent_count, new_state, admin_i, wakeAt,
                   ghostVars, adminVars, disqualified, remoteVars>>

\* Variant: the flood-wait is recorded in the errors table
FloodWakeLogged ==
    /\ pc = "flood_sleep"
    /\ wakeAt <= MaxClock
    /\ clock' = wakeAt
    /\ errors' = Append(errors, [account_id |-> account_id, context |-> "scheduler"])
    /\ pc' = "loop"
    /\ index' = index + 1
    /\ UNCHANGED <<SCHEDULER_RUNNING, db, groups, alerts, ACCOUNT_CLIENTS,
                   accounts, now, group_db_id, sent_count, new_state, admin_i, wakeAt,
                   ghostVars, faults, adminVars, disqualified, remoteVars>>

\* the flood-wait sleep returns; the for-loop goes on with the next account
FloodWake ==
    /\ pc = "flood_sleep"
    /\ wakeAt <= MaxClock
    /\ clock' = wakeAt
    /\ pc' = "loop"
    /\ index' = index + 1
    /\ UNCHANGED <<SCHEDULER_RUNNING, dbVars, alerts, ACCOUNT_CLIENTS,
                   accounts, now, group_db_id, sent_count, new_state, admin_i, wakeAt,
                   ghostVars, faults, adminVars, disqualified, remoteVars>>

\* Variant: the error is logged without the account id
LogExceptionNoAccount ==
    /\ pc = "exc_log"
    /\ \/ /\ NoFault
          /\ errors' = Append(errors, [account_id |-> NULL, context |-> "scheduler_create_group"])
          /\ pc' = "exc_notify"
          /\ admin_i' = 1
       \/ /\ Fault
          /\ pc' = "main_log"
          /\ UNCHANGED <<errors, admin_i>>
    /\ UNCHANGED <<SCHEDULER_RUNNING, db, groups, alerts, ACCOUNT_CLIENTS, clock,
                   accounts, now, index, group_db_id, sent_count, new_state, wakeAt,
                   ghostVars, adminVars, disqualified, remoteVars>>

\* except Exception: await log_error("scheduler_create_group", str(e), account_id)
LogException ==
    /\ pc = "exc_log"
    /\ \/ /\ NoFault
          /\ errors' = log_error(errors, "scheduler_create_group", account_id)
          /\ pc' = "exc_notify"
          /\ admin_i' = 1
       \/ /\ Fault
          /\ pc' = "main_log"
          /\ UNCHANGED <<errors, admin_i>>
    /\ UNCHANGED <<SCHEDULER_RUNNING, db, groups, alerts, ACCOUNT_CLIENTS, clock,
                   accounts, now, index, group_db_id, sent_count, new_state, wakeAt,
                   ghostVars, adminVars, disqualified, remoteVars>>

\* Variant: the notification is sent outside a try, its exception propagates
NotifyExceptionPropagates ==
    /\ pc = "exc_notify"
    /\ \/ /\ NoFault
          /\ admin_i <= Len(ADMIN_IDS)
          /\ alerts' = Append(alerts, [to |-> ADMIN_IDS[admin_i], account_id |-> account_id,
                                       kind |-> "error"])
          /\ admin_i' = admin_i + 1
          /\ UNCHANGED <<pc, index>>
       \/ /\ admin_i <= Len(ADMIN_IDS)
          /\ Fault
          /\ pc' = "main_log"
          /\ UNCHANGED <<alerts, admin_i, index>>
       \/ /\ admin_i > Len(ADMIN_IDS)
          /\ NoFault
          /\ pc' = "loop"
          /\ index' = index + 1
          /\ UNCHANGED <<alerts, admin_i>>
    /\ UNCHANGED <<SCHEDULER_RUNNING, dbVars, ACCOUNT_CLIENTS, clock,
                   accounts, now, group_db_id, sent_count, new_state, wakeAt,
                   ghostVars, adminVars, disqualified, remoteVars>>

\* try: for admin_id in ADMIN_IDS: await bot_client.send_message(admin_id, ...)
\* except Exception: logger.exception(...)
NotifyException ==
    /\ pc = "exc_notify"
    /\ \/ /\ NoFault
          /\ admin_i <= Len(ADMIN_IDS)
          /\ alerts' = Append(alerts, [to |-> ADMIN_IDS[admin_i], account_id |-> account_id,
                                       kind |-> "error"])
          /\ admin_i' = admin_i + 1
          /\ UNCHANGED <<pc, index>>
       \/ /\ IF admin_i <= Len(ADMIN_IDS) THEN Fault ELSE NoFault
          /\ pc' = "loop"
          /\ index' = index + 1
          /\ UNCHANGED <<alerts, admin_i>>
    /\ UNCHANGED <<SCHEDULER_RUNNING, dbVars, ACCOUNT_CLIENTS, clock,
                   accounts, now, group_db_id, sent_count, new_state, wakeAt,
                   ghostVars, adminVars, disqualified, remoteVars>>

\* except Exception (main loop): await log_error("scheduler_main_loop", str(e));
\* await asyncio.sleep(10).  An exception raised by log_error here leaves
\* run_scheduler.
LogMainLoop ==
    /\ pc = "main_log"
    /\ \/ /\ NoFault
          /\ errors' = log_error(errors, "scheduler_main_loop", NULL)
          /\ pc' = "recovery_sleep"
          /\ wakeAt' = clock + RECOVERY_SLEEP
       \/ /\ Fault
          /\ pc' = "crashed"
          /\ UNCHANGED <<errors, wakeAt>>
    /\ UNCHANGED <<SCHEDULER_RUNNING, db, groups, alerts, ACCOUNT_CLIENTS, clock,
                   localVars, ghostVars, adminVars, disqualified, remoteVars>>

\* ------------------------------------------------------- admin handlers
schedVars == <<pc, localVars, wakeAt, ghostVars, clock, alerts, ACCOUNT_CLIENTS, faults,
               remoteVars>>

\* def is_scheduler_running() -> bool: return SCHEDULER_RUNNING
is_scheduler_running == SCHEDULER_RUNNING

\* Variant: start_scheduler flips the flag
StartSchedulerFlips ==
    /\ admin.op = "idle" /\ adminOps < MaxAdminOps
    /\ SCHEDULER_RUNNING' = ~SCHEDULER_RUNNING
    /\ control' = "start"
    /\ adminOps' = adminOps + 1
    /\ UNCHANGED <<dbVars, schedVars, admin, disqualified>>

\* cb_scheduler_start: start_scheduler()
StartScheduler ==
    /\ admin.op = "idle" /\ adminOps < MaxAdminOps
    /\ SCHEDULER_RUNNING' = TRUE
    /\ control' = "start"
    /\ adminOps' = adminOps + 1
    /\ UNCHANGED <<dbVars, schedVars, admin, disqualified>>

\* cb_scheduler_stop: stop_scheduler()
StopScheduler ==
    /\ admin.op = "idle" /\ adminOps < MaxAdminOps
    /\ SCHEDULER_RUNNING' = FALSE
    /\ control' = "stop"
    /\ adminOps' = adminOps + 1
    /\ UNCHANGED <<dbVars, schedVars, admin, disqualified>>

\* cb_accounts_toggle: toggle_account_active(acc_id), up to the UPDATE
AdminToggleRead ==
    /\ admin.op = "idle" /\ adminOps < MaxAdminOps
    /\ \E a \in AccountIds :
          /\ db[a].exists
          /\ admin' = [op |-> "toggle", account_id |-> a, new_state |-> ~db[a].is_active]
    /\ adminOps' = adminOps + 1
    /\ UNCHANGED <<SCHEDULER_RUNNING, dbVars, schedVars, disqualified, control>>

\* cb_accounts_toggle: the UPDATE of toggle_account_active
AdminToggleWrite ==
    /\ admin.op = "toggle"
    /\ db' = set_is_active(db, admin.account_id, admin.new_state)
    /\ disqualified' = IF admin.new_state THEN disqualified \ {admin.account_id}
                       ELSE disqualified
    /\ admin' = NoAdmin
    /\ UNCHANGED <<SCHEDULER_RUNNING, groups, errors, schedVars, adminOps, control>>

DeletedRow == [exists |-> FALSE, is_active |-> FALSE, created_groups_count |-> 0,
               first_activity_at |-> NULL, last_group_created_at |-> NULL]

\* DELETE FROM groups / errors / accounts WHERE [account_]id = ?
DeleteGroupsOf(g, id) ==
    [i \in 1..Len(g) |-> IF g[i].account_id = id THEN [g[i] EXCEPT !.deleted = TRUE] ELSE g[i]]
DeleteErrorsOf(e, id) ==
    LET Keep(r) == r.account_id # id IN SelectSeq(e, Keep)

\* cb_delete: delete_account(acc_id)
DeleteAccount ==
    /\ admin.op = "idle" /\ adminOps < MaxAdminOps
    /\ \E a \in AccountIds :
          /\ db[a].exists
          /\ db' = [db EXCEPT ![a] = DeletedRow]
          /\ groups' = DeleteGroupsOf(groups, a)
          /\ errors' = DeleteErrorsOf(errors, a)
          /\ disqualified' = disqualified \ {a}
    /\ adminOps' = adminOps + 1
    /\ UNCHANGED <<SCHEDULER_RUNNING, schedVars, admin, control>>

\* ------------------------------------------------------------------ spec
Scheduler ==
    \/ Top \/ GetAccounts \/ SyncAccounts \/ LoopHead \/ Wake
    \/ Connect \/ CreateChannel \/ CreateGroupRecord \/ SendMessage
    \/ IncrementAccountGroups \/ UpdateAccountActivity \/ UpdateGroupMessagesSent
    \/ ToggleRead \/ ToggleWrite \/ LogChannelsTooMuch \/ NotifyChannelsTooMuch
    \/ FloodWake \/ LogException \/ NotifyException \/ LogMainLoop

Admin ==
    \/ StartScheduler \/ StopScheduler \/ AdminToggleRead \/ AdminToggleWrite
    \/ DeleteAccount

Next == Scheduler \/ Admin

Spec == Init /\ [][Next]_vars

\* ------------------------------------------ tables provisioned before
\* The first account already holds the maximum number of groups, the others
\* created one group at time 0.
CapFirstDb ==
    [a \in AccountIds |-> IF a = 1 THEN UsedRow(MAX_GROUPS_PER_ACCOUNT) ELSE UsedRow(1)]

\* The first account's first_activity_at holds a text that is no ISO
\* timestamp (the column is TEXT; the file is not written by this program
\* alone), the second never acted, the others created one group at time 0.
UnreadableFirstDb ==
    [a \in AccountIds |-> IF a = 1 THEN [UsedRow(1) EXCEPT !.first_activity_at = UNREADABLE]
                          ELSE IF a = 2 THEN FreshRow ELSE UsedRow(1)]

\* run_scheduler starts on a database file that existed before.
InitProvisioned ==
    /\ SCHEDULER_RUNNING = TRUE
    /\ db \in {CapFirstDb, UnreadableFirstDb}
    /\ groups = <<>>
    /\ errors = <<>>
    /\ alerts = <<>>
    /\ ACCOUNT_CLIENTS = [a \in AccountIds |-> NoClient]
    /\ client = NoClient
    /\ channel = 0
    /\ constructed = FALSE
    /\ channels = <<>>
    /\ clock = 0
    /\ pc = "top"
    /\ accounts = <<>>
    /\ now = 0
    /\ index = 1
    /\ group_db_id = 0
    /\ sent_count = 0
    /\ new_state = FALSE
    /\ admin_i = 1
    /\ wakeAt = 0
    /\ verdict = NoVerdict
    /\ lastCall = NoCall
    /\ flood = NoFlood
    /\ faults = 0
    /\ admin = NoAdmin
    /\ adminOps = 0
    /\ disqualified = {}
    /\ control = "none"

ProvisionedSpec == InitProvisioned /\ [][Next]_vars

\* ------------------------------------------- the evaluator on its own
\* Times around the two thresholds, and the stored values of one row.
EvalTimes == {0, 1, GROUP_INTERVAL - 1, GROUP_INTERVAL, GROUP_INTERVAL + 1,
              MAX_ACCOUNT_AGE - 1, MAX_ACCOUNT_AGE, MAX_ACCOUNT_AGE + 1,
              MAX_ACCOUNT_AGE + GROUP_INTERVAL}
EvalCounts == {NULL} \cup (0..(MAX_GROUPS_PER_ACCOUNT + 1))
EvalRows == [id : {1}, is_active : {TRUE}, created_groups_count : EvalCounts,
             first_activity_at : {NULL} \cup EvalTimes,
             last_group_created_at : {NULL} \cup EvalTimes]

\* The for-loop about to examine one fetched row at time now.
InitEval ==
    /\ SCHEDULER_RUNNING = TRUE
    /\ db = InitDb
    /\ groups = <<>>
    /\ errors = <<>>
    /\ alerts = <<>>
    /\ ACCOUNT_CLIENTS = [a \in AccountIds |-> NoClient]
    /\ client = NoClient
    /\ channel = 0
    /\ constructed = FALSE
    /\ channels = <<>>
    /\ now \in EvalTimes
    /\ clock = now
    /\ pc = "loop"
    /\ accounts \in {<<r>> : r \in EvalRows}
    /\ index = 1
    /\ group_db_id = 0
    /\ sent_count = 0
    /\ new_state = FALSE
    /\ admin_i = 1
    /\ wakeAt = 0
    /\ verdict = NoVerdict
    /\ lastCall = NoCall
    /\ flood = NoFlood
    /\ faults = 0
    /\ admin = NoAdmin
    /\ adminOps = 0
    /\ disqualified = {}
    /\ control = "none"

EvalSpec == InitEval /\ [][LoopHead]_vars

\* -------------------------------------------------------------- claims
Evaluated == verdict.result # "none"
QuotaFull(r) == OrZero(r.created_groups_count) >= MAX_GROUPS_PER_ACCOUNT
TooOld(r, t) == r.first_activity_at # NULL /\ t - r.first_activity_at > MAX_ACCOUNT_AGE
TooSoon(r, t) == r.last_group_created_at # NULL /\ t - r.last_group_created_at < GROUP_INTERVAL

\* C1: an account whose created_groups_count has reached
\* max_groups_per_account is always evaluated quota_reached, whatever its
\* timestamps are.
C1_QuotaReached ==
    (Evaluated /\ QuotaFull(verdict.row)) => verdict.result = "quota_reached"

\* C1 happens: a full account that is also past the age limit and inside the
\* interval was evaluated.
C1_Witness ==
    /\ Evaluated /\ QuotaFull(verdict.row)
    /\ TooOld(verdict.row, verdict.now) /\ TooSoon(verdict.row, verdict.now)
    /\ verdict.result = "quota_reached"

\* C2: below the quota, an account older than max_account_age is evaluated
\* aged_out, whether or not it is also inside the interval.
C2_AgedOut ==
    (Evaluated /\ ~QuotaFull(verdict.row) /\ TooOld(verdict.row, verdict.now))
        => verdict.result = "aged_out"

\* C2 happens: an aged account that is also inside the interval was evaluated.
C2_Witness ==
    /\ Evaluated /\ ~QuotaFull(verdict.row)
    /\ TooOld(verdict.row, verdict.now) /\ TooSoon(verdict.row, verdict.now)
    /\ verdict.result = "aged_out"

\* C3: an account is eligible exactly when it is below the quota, not older
\* than max_account_age and not inside the interval; strictly inside the
\* interval (and otherwise admissible) it is cooling_down, and eligibility is
\* what sends the loop on to the action.
C3_EligibleIff ==
    Evaluated =>
        /\ verdict.result = "eligible"
             <=> /\ OrZero(verdict.row.created_groups_count) < MAX_GROUPS_PER_ACCOUNT
                 /\ \/ verdict.row.first_activity_at = NULL
                    \/ verdict.now - verdict.row.first_activity_at <= MAX_ACCOUNT_AGE
                 /\ \/ verdict.row.last_group_created_at = NULL
                    \/ verdict.now - verdict.row.last_group_created_at >= GROUP_INTERVAL
        /\ (~QuotaFull(verdict.row) /\ ~TooOld(verdict.row, verdict.now)
               /\ TooSoon(verdict.row, verdict.now)) => verdict.result = "cooling_down"
        /\ verdict.result = "eligible" <=> pc = "connect"

\* C3 happens: an account whose last action is exactly min_interval old was
\* evaluated eligible.
C3_Witness ==
    /\ Evaluated
    /\ verdict.row.last_group_created_at # NULL
    /\ verdict.now - verdict.row.last_group_created_at = GROUP_INTERVAL
    /\ verdict.result = "eligible"
    /\ pc = "connect"

\* The row of the account the for-loop is at had no activity when fetched.
NoPriorActivity(r) == r.first_activity_at = NULL /\ r.last_group_created_at = NULL

\* The step on which the body of the for-loop ends without an exception.
ActionCompletes == pc = "update_messages" /\ pc' = "loop"

\* C4: when an account fetched with no prior activity completes a successful
\* action, its row then has first_activity_at = last_group_created_at = now
\* and a counter one above the fetched one.
C4_FirstSuccess ==
    [][(ActionCompletes /\ NoPriorActivity(acc) /\ db'[account_id].exists) =>
          /\ db'[account_id].first_activity_at = now
          /\ db'[account_id].last_group_created_at = now
          /\ db'[account_id].created_groups_count = OrZero(acc.created_groups_count) + 1]_vars

\* C4 happens: the previous account of this tick had no prior activity and its
\* action ran to the end (its group holds all the messages).
C4_Witness ==
    /\ pc = "loop" /\ index > 1 /\ index - 1 <= Len(accounts)
    /\ NoPriorActivity(accounts[index - 1])
    /\ db[accounts[index - 1].id].exists
    /\ db[accounts[index - 1].id].first_activity_at = now
    /\ db[accounts[index - 1].id].last_group_created_at = now
    /\ db[accounts[index - 1].id].created_groups_count = 1
    /\ \E g \in 1..Len(groups) :
          /\ groups[g].account_id = accounts[index - 1].id
          /\ groups[g].created_at = now
          /\ groups[g].messages_sent = NUM_MESSAGES

\* The scheduler's call of toggle_account_active in the ChannelsTooMuchError
\* clause returns (after its UPDATE, or at once when the row is gone).
DeactivationDone == pc \in {"ctm_toggle_read", "ctm_toggle_write"} /\ pc' = "ctm_log"

\* The scheduler has finished handling ChannelsTooMuchError for the account.
DisqualifiedHandled == pc = "ctm_notify" /\ pc' = "loop"

\* C5: handling a Disqualifying outcome makes the account's active flag false,
\* also when an administrator toggled or deleted the account after the tick
\* fetched it, and raises exactly one operator alert (when the notification
\* call itself did not fail).
C5_DisqualifiedInactive ==
    [][/\ DeactivationDone => ~db'[account_id].is_active
       /\ (DisqualifiedHandled /\ faults' = faults) => Len(alerts') = Len(alerts) + 1]_vars

\* A step on which a call is made to the remote platform.
CallMade == lastCall' # lastCall

\* C6: after a flood-wait of `seconds` no call is made for any account before
\* the pause is over, and the pause ends by going on with the next account
\* of the same tick.
C6_FloodPause ==
    [][/\ CallMade => clock >= flood.until
       /\ (pc = "flood_sleep" /\ pc' # pc) =>
             /\ clock' >= flood.until
             /\ pc' = "loop"
             /\ index' = index + 1
             /\ accounts' = accounts
             /\ now' = now]_vars

\* C6 happens: in the tick of the flood-wait the account after the
\* rate-limited one is being acted on, after the pause.
C6_Witness ==
    /\ pc = "connect"
    /\ index > 1
    /\ accounts[index - 1].id = flood.account_id
    /\ flood.tick = now
    /\ flood.until > now
    /\ clock >= flood.until

Ineligible(r, t) == QuotaFull(r) \/ TooOld(r, t) \/ TooSoon(r, t)

\* The for-loop examines the account at `index` (a step of LoopHead while running).
Examines ==
    /\ pc = "loop" /\ index <= Len(accounts) /\ SCHEDULER_RUNNING
    /\ <<pc, index, verdict>>' # <<pc, index, verdict>>

\* C7: an ineligible account is passed over: the loop moves to the next
\* account, no call is made, no connection is registered, no row of any table
\* changes and no alert is sent.
C7_SkipSilently ==
    [][(Examines /\ Ineligible(acc, now)) =>
          /\ pc' = "loop"
          /\ index' = index + 1
          /\ UNCHANGED <<db, groups, errors, alerts, ACCOUNT_CLIENTS, lastCall, clock>>]_vars

\* C7 happens: an account past the age limit was just passed over in a tick,
\* and nothing was called for it in this tick.
C7_Witness ==
    /\ pc = "loop" /\ index > 1
    /\ verdict.row = accounts[index - 1]
    /\ verdict.now = now
    /\ verdict.result = "aged_out"
    /\ (lastCall.account_id # verdict.row.id \/ lastCall.at < now)

\* The attempt on the account at `index` created a group record.
GroupCreatedThisAttempt ==
    /\ group_db_id \in 1..Len(groups)
    /\ groups[group_db_id].account_id = account_id
    /\ groups[group_db_id].created_at = now
    /\ ~groups[group_db_id].deleted

\* The handling of the account at `index` ends through an except clause.
FailureHandled ==
    /\ pc \in {"ctm_notify", "flood_sleep", "exc_notify"}
    /\ pc' = "loop"

\* C8: an action whose group was created and whose delivery stopped after
\* sent_count < 10 messages still counts as succeeded: the counter is
\* incremented, the timestamps are set, and the group's messages_sent is
\* sent_count.
C8_PartialDelivery ==
    [][(FailureHandled /\ GroupCreatedThisAttempt /\ sent_count < NUM_MESSAGES
          /\ db'[account_id].exists) =>
          /\ db'[account_id].created_groups_count = OrZero(acc.created_groups_count) + 1
          /\ db'[account_id].last_group_created_at = now
          /\ db'[account_id].first_activity_at # NULL
          /\ groups'[group_db_id].messages_sent = sent_count]_vars

\* C9: run_scheduler never ends because of a failure.
C9_NeverTerminates == pc # "crashed"

\* C10: an action is started only while the run-state is Running; a tick that
\* begins while Stopped only polls; and a for-loop that finds the run-state
\* Stopped leaves the rest of the tick's accounts unprocessed.
C10_StoppedNoAction ==
    [][/\ (pc' = "connect" /\ pc # "connect") => SCHEDULER_RUNNING
       /\ (pc = "top" /\ ~SCHEDULER_RUNNING /\ pc' # pc) =>
             /\ pc' = "poll_sleep"
             /\ UNCHANGED <<accounts, now, index, lastCall, db, groups>>
       /\ (pc = "loop" /\ ~SCHEDULER_RUNNING /\ <<pc, index>>' # <<pc, index>>) =>
             /\ pc' = "loop_sleep"
             /\ UNCHANGED <<accounts, now, index, lastCall, db, groups>>]_vars

\* C10 happens: stop() came during the first account's action, and the tick
\* ended with the second, eligible account unprocessed.
C10_Witness ==
    /\ pc = "loop_sleep"
    /\ ~SCHEDULER_RUNNING
    /\ Len(accounts) = 2 /\ index = 2
    /\ ~Ineligible(accounts[2], now)
    /\ lastCall.account_id = accounts[1].id
    /\ lastCall.at >= now
    /\ lastCall.account_id # accounts[2].id

\* A step of run_scheduler (the administrative handlers are the other steps).
SchedulerStep == UNCHANGED adminVars

\* The attempt on the account at `index` created its group and delivered
\* every message.
ActionSucceeded == GroupCreatedThisAttempt /\ sent_count = NUM_MESSAGES

CounterChanged(a) ==
    /\ db[a].exists /\ db'[a].exists
    /\ db'[a].created_groups_count # db[a].created_groups_count

\* C11: created_groups_count of an account never decreases; it changes only
\* by the increment that follows the delivery of all the messages of that
\* account's action in the same tick, and then by exactly 1; an attempt whose
\* action failed or was rate-limited reaches its except clause with the
\* counter as fetched, and no other step (skip, handlers, administrators)
\* changes it.
C11_CounterMonotone ==
    [][/\ \A a \in AccountIds :
             /\ (db[a].exists /\ db'[a].exists) =>
                    db'[a].created_groups_count >= db[a].created_groups_count
             /\ CounterChanged(a) =>
                    /\ db'[a].created_groups_count = db[a].created_groups_count + 1
                    /\ pc = "increment" /\ a = account_id
                    /\ ActionSucceeded
                    /\ lastCall.account_id = a /\ lastCall.op = "send_message"
                    /\ lastCall.at >= now
       /\ (pc \in {"ctm_toggle_read", "flood_sleep", "exc_log"} /\ ~ActionSucceeded
             /\ db[account_id].exists) =>
               db[account_id].created_groups_count = OrZero(acc.created_groups_count)]_vars

\* C11 happens: the account at `index` delivered its messages and its counter
\* is one above the fetched one.
C11_Witness ==
    /\ pc = "update_activity"
    /\ ActionSucceeded
    /\ db[account_id].exists
    /\ db[account_id].created_groups_count = OrZero(acc.created_groups_count) + 1

FirstActivityChanged(a) ==
    /\ db[a].exists /\ db'[a].exists
    /\ db'[a].first_activity_at # db[a].first_activity_at

\* C12: first_activity_at of an account is written only when it has no value,
\* by the activity update of a successful action of that account, which sets
\* it to the tick's now; once it has a value no step changes or clears it.
C12_FirstActivityOnce ==
    [][\A a \in AccountIds :
          FirstActivityChanged(a) =>
             /\ db[a].first_activity_at = NULL
             /\ pc = "update_activity" /\ a = account_id
             /\ ActionSucceeded
             /\ db'[a].first_activity_at = now]_vars

\* C12 happens: an account that already had a first activity completed a
\* later successful action, and first_activity_at is what it was.
C12_Witness ==
    /\ pc = "update_messages"
    /\ ActionSucceeded
    /\ acc.first_activity_at # NULL
    /\ now > acc.first_activity_at
    /\ db[account_id].exists
    /\ db[account_id].last_group_created_at = now
    /\ db[account_id].first_activity_at = acc.first_activity_at

\* C13: no action is started for an account that the ChannelsTooMuchError
\* clause has handled, in that tick or in a later one, as long as no
\* administrator has activated it since.
C13_NoRetryUntilReactivated ==
    pc = "connect" => account_id \notin disqualified

\* The stored counter and timestamps of the account at `index` are the fetched ones.
RowAsFetched ==
    /\ db[account_id].created_groups_count = acc.created_groups_count
    /\ db[account_id].first_activity_at = acc.first_activity_at
    /\ db[account_id].last_group_created_at = acc.last_group_created_at

\* Every operator has been sent the alert about the account at `index`.
AllAdminsAlerted ==
    /\ Len(alerts) >= Len(ADMIN_IDS)
    /\ \A i \in 1..Len(ADMIN_IDS) :
          alerts[Len(alerts) - Len(ADMIN_IDS) + i] =
              [to |-> ADMIN_IDS[i], account_id |-> account_id, kind |-> "error"]

\* C14: the `except Exception` clause writes one error record carrying the
\* account id, then alerts every operator (when the notification call does
\* not fail), writes nothing to the accounts and groups tables, and ends by
\* going on with the next account of the same tick; when the action had
\* failed, the row then holds the counter and timestamps that were fetched,
\* so the same evaluation applies to it at the next tick.
C14_TransientHandled ==
    [][/\ (pc = "exc_log" /\ pc' = "exc_notify") =>
             /\ Len(errors') = Len(errors) + 1
             /\ errors'[Len(errors')].account_id = account_id
             /\ errors'[Len(errors')].context = "scheduler_create_group"
             /\ UNCHANGED <<db, groups, alerts>>
       /\ (pc = "exc_notify" /\ SchedulerStep) => UNCHANGED <<db, groups, errors>>
       /\ (pc = "exc_notify" /\ pc' # pc) =>
             /\ pc' = "loop"
             /\ index' = index + 1
             /\ UNCHANGED <<accounts, now>>
             /\ faults' = faults => AllAdminsAlerted
             /\ (~ActionSucceeded /\ db[account_id].exists) => RowAsFetched]_vars

\* C14 happens: the first account of the tick failed with an unclassified
\* exception at creation, was logged and alerted, is active with its row as
\* fetched, and the second account's action is starting.
C14_Witness ==
    /\ pc = "connect" /\ index = 2
    /\ lastCall = [account_id |-> accounts[1].id, op |-> "create_channel", at |-> now]
    /\ errors # <<>>
    /\ errors[Len(errors)] = [account_id |-> accounts[1].id, context |-> "scheduler_create_group"]
    /\ alerts # <<>>
    /\ alerts[Len(alerts)].account_id = accounts[1].id
    /\ alerts[Len(alerts)].kind = "error"
    /\ db[accounts[1].id].is_active
    /\ db[accounts[1].id].created_groups_count = accounts[1].created_groups_count
    /\ db[accounts[1].id].last_group_created_at = accounts[1].last_group_created_at

\* C15: a FloodWaitError writes no error record, sends no alert and changes
\* no row: neither the step that raises it nor the step that ends the pause
\* touches the tables or the alerts, and during the pause the account's
\* counter and timestamps are the fetched ones; the pause only moves time.
C15_RateLimitedSilent ==
    [][/\ (pc # "flood_sleep" /\ pc' = "flood_sleep") =>
             UNCHANGED <<db, groups, errors, alerts, SCHEDULER_RUNNING>>
       /\ (pc = "flood_sleep" /\ pc' # pc) =>
             /\ UNCHANGED <<db, groups, errors, alerts, SCHEDULER_RUNNING, ACCOUNT_CLIENTS>>
             /\ clock' = wakeAt
       /\ (pc = "flood_sleep" /\ db[account_id].exists) => RowAsFetched]_vars

\* C15 happens: the previous account of the tick was rate-limited, the pause
\* is over, and there is no error record and no alert.
C15_Witness ==
    /\ pc = "loop" /\ index > 1
    /\ flood.account_id = accounts[index - 1].id
    /\ flood.tick = now
    /\ flood.until > now
    /\ clock >= flood.until
    /\ errors = <<>>
    /\ alerts = <<>>
    /\ db[flood.account_id].is_active
    /\ db[flood.account_id].created_groups_count = accounts[index - 1].created_groups_count

\* C16: when the notification call of the ChannelsTooMuchError or the
\* Exception clause fails, the handling still ends by going on with the next
\* account of the same tick, and the tables keep the deactivation and the
\* error record.
C16_NotifyFailureSwallowed ==
    [][(pc \in {"ctm_notify", "exc_notify"} /\ faults' # faults) =>
          /\ pc' = "loop"
          /\ index' = index + 1
          /\ UNCHANGED <<db, groups, errors, alerts, accounts, now, clock,
                         SCHEDULER_RUNNING>>]_vars

\* C16 happens: the first account of the tick failed and was logged, its
\* alert could not be sent, and the for-loop went on to evaluate the second
\* account in the same tick.
C16_Witness ==
    /\ pc = "loop" /\ index = 3
    /\ verdict.row = accounts[2] /\ verdict.now = now
    /\ lastCall.account_id = accounts[1].id
    /\ lastCall.at >= now
    /\ faults > 0
    /\ errors # <<>>
    /\ errors[Len(errors)] = [account_id |-> accounts[1].id, context |-> "scheduler_create_group"]
    /\ alerts = <<>>

\* C17: the list a tick works on is read from the accounts table by that
\* tick: it holds exactly the rows that exist and are active at the fetch,
\* with their stored values, in table order; it is written by no other step,
\* and every call of the tick is made for an account of that list.
C17_FreshRead ==
    [][/\ (pc = "get_accounts" /\ pc' = "sync_accounts") =>
             /\ \A a \in AccountIds :
                    (\E i \in 1..Len(accounts') : accounts'[i].id = a)
                        <=> (db[a].exists /\ db[a].is_active)
             /\ \A i \in 1..Len(accounts') :
                    /\ accounts'[i].created_groups_count = db[accounts'[i].id].created_groups_count
                    /\ accounts'[i].first_activity_at = db[accounts'[i].id].first_activity_at
                    /\ accounts'[i].last_group_created_at = db[accounts'[i].id].last_group_created_at
             /\ \A i, j \in 1..Len(accounts') : i < j => accounts'[i].id < accounts'[j].id
       /\ accounts' # accounts => (pc = "get_accounts" /\ pc' = "sync_accounts")
       /\ lastCall' # lastCall =>
             \E i \in 1..Len(accounts) : accounts[i].id = lastCall'.account_id]_vars

\* C17 happens: account 1 was deactivated by the ChannelsTooMuchError clause,
\* an administrator activated it again, and the next tick fetched and
\* evaluated it.
C17_Witness ==
    /\ pc \in {"loop", "connect"}
    /\ now > 0
    /\ accounts # <<>>
    /\ accounts[1].id = 1
    /\ verdict.row = accounts[1] /\ verdict.now = now
    /\ \E e \in 1..Len(errors) : errors[e] = [account_id |-> 1, context |-> "scheduler"]
    /\ lastCall.account_id = 1 /\ lastCall.at < now
    /\ db[1].exists /\ db[1].is_active
    /\ adminOps = 1 /\ admin = NoAdmin
    /\ disqualified = {}

AtCap(a) == db[a].exists /\ OrZero(db[a].created_groups_count) >= MAX_GROUPS_PER_ACCOUNT

\* No step of run_scheduler removes a row of the accounts table.
NeverDeletes == SchedulerStep => \A a \in AccountIds : db[a].exists => db'[a].exists

\* C18: when the action that brings an account's created_groups_count to
\* max_groups_per_account is over, the scheduler has set the account's active
\* flag to false; and the scheduler never deletes an account row.
C18_DeactivatedAtCap ==
    [][/\ (ActionCompletes /\ db'[account_id].exists
             /\ OrZero(db'[account_id].created_groups_count) >= MAX_GROUPS_PER_ACCOUNT)
            => ~db'[account_id].is_active
       /\ NeverDeletes]_vars

\* C18 as the code has it: reaching max_groups_per_account leaves the active
\* flag as it is; the scheduler writes the flag only in the
\* ChannelsTooMuchError clause, for the account that raised it; and it never
\* deletes an account row.
C18_CapLeavesFlag ==
    [][/\ SchedulerStep =>
             \A a \in AccountIds :
                (db[a].exists /\ db'[a].exists /\ db'[a].is_active # db[a].is_active)
                    => (pc = "ctm_toggle_write" /\ a = account_id)
       /\ \A a \in AccountIds : CounterChanged(a) => db'[a].is_active = db[a].is_active
       /\ NeverDeletes]_vars

\* C18 happens: the previous account of the tick has completed the action
\* that brought it to max_groups_per_account, and it is still active.
C18_Witness ==
    /\ pc = "loop" /\ index > 1 /\ index - 1 <= Len(accounts)
    /\ AtCap(accounts[index - 1].id)
    /\ OrZero(accounts[index - 1].created_groups_count) < MAX_GROUPS_PER_ACCOUNT
    /\ db[accounts[index - 1].id].last_group_created_at = now
    /\ db[accounts[index - 1].id].is_active
    /\ adminOps = 0

GroupsOf(a) ==
    Cardinality({g \in 1..Len(groups) : groups[g].account_id = a /\ ~groups[g].deleted})
Increments(a) == db[a].created_groups_count - InitDb[a].created_groups_count

\* C20: between two attempts, every account owns as many group records as
\* increments were applied to its counter: a record is written once per
\* successful action and a failed attempt leaves none.
C20_GroupPerIncrement ==
    pc \in {"loop", "loop_sleep"} =>
        \A a \in AccountIds : db[a].exists => GroupsOf(a) = Increments(a)

\* The labels of the texts utils.py builds, in the order of its list.
DatetimeLabels ==
    <<"Year", "Month", "Day", "Weekday", "Hour", "Minute", "Second", "ISO", "Unix", "Summary">>

\* C21: when an action ends as succeeded, the group it created on the remote
\* platform in this attempt holds exactly the ten generated messages for the
\* tick's timestamp, in the fixed order, and the group's row (unless an
\* administrator deleted it meanwhile) has messages_sent = NUM_MESSAGES.
C21_TenMessagesInOrder ==
    [][ActionCompletes =>
          /\ channel \in 1..Len(channels)
          /\ channels'[channel].owner = account_id
          /\ channels'[channel].tick = now
          /\ Len(channels'[channel].messages) = NUM_MESSAGES
          /\ \A k \in 1..NUM_MESSAGES :
                channels'[channel].messages[k] = [label |-> DatetimeLabels[k], dt |-> now]
          /\ group_db_id \in 1..Len(groups')
          /\ groups'[group_db_id].chat_id = channel
          /\ groups'[group_db_id].account_id = account_id
          /\ ~groups'[group_db_id].deleted => groups'[group_db_id].messages_sent = NUM_MESSAGES]_vars

\* C21 happens: the previous account of this tick completed its action; its
\* group row points at a remote group that received all ten messages.
C21_Witness ==
    /\ pc = "loop" /\ index > 1 /\ index - 1 <= Len(accounts)
    /\ lastCall.account_id = accounts[index - 1].id
    /\ lastCall.op = "send_message"
    /\ group_db_id \in 1..Len(groups)
    /\ groups[group_db_id].account_id = accounts[index - 1].id
    /\ groups[group_db_id].messages_sent = NUM_MESSAGES
    /\ groups[group_db_id].chat_id = channel
    /\ channel \in 1..Len(channels)
    /\ channels[channel].owner = accounts[index - 1].id
    /\ Len(channels[channel].messages) = NUM_MESSAGES
    /\ channels[channel].messages[4].label = "Weekday"
    /\ channels[channel].messages[NUM_MESSAGES].label = "Summary"

\* A group is created on the remote platform by this step.
CreatesRemoteGroup == Len(channels') = Len(channels) + 1

\* The accounts of the fetched list that precede position i.
Before(i) == {accounts[k].id : k \in 1..(i - 1)}

\* C22: the fetched list is the active rows in the order of persistence (by
\* id) and is replaced only by the read that opens a tick; within a tick the
\* position moves forward one account at a time from 1; every call is made
\* for the account at the current position; and the first component of the
\* title of a created group is the position of its owner in the whole fetched
\* list, the accounts skipped before it included.
C22_PositionInFetchedList ==
    [][/\ accounts' # accounts =>
             /\ pc = "get_accounts"
             /\ accounts' = get_accounts(db, TRUE)
             /\ \A i, j \in 1..Len(accounts') : i < j => accounts'[i].id < accounts'[j].id
       /\ index' # index =>
             \/ pc = "sync_accounts" /\ index' = 1
             \/ pc # "sync_accounts" /\ index' = index + 1 /\ index <= Len(accounts)
       /\ CallMade => lastCall'.account_id = accounts[index].id
       /\ CreatesRemoteGroup =>
             /\ channels'[Len(channels')].title[1] = index
             /\ channels'[Len(channels')].owner = accounts[index].id
             /\ Cardinality(Before(index)) = index - 1
             /\ channels'[Len(channels')].owner \notin Before(index)]_vars

\* C22 happens: the second account of the list created a group numbered 2 in
\* a tick in which the first account of the list was skipped as ineligible.
C22_Witness ==
    /\ Len(accounts) = 2 /\ index = 2
    /\ Evaluate(accounts[1], now) # "eligible"
    /\ lastCall.account_id # accounts[1].id
    /\ channels # <<>>
    /\ channels[Len(channels)].owner = accounts[2].id
    /\ channels[Len(channels)].tick = now
    /\ channels[Len(channels)].title[1] = 2

\* C23: any two groups created on the remote platform for the same account
\* carry different ordinals, hence different titles.
C23_DistinctOrdinals ==
    \A i, j \in 1..Len(channels) :
        (i < j /\ channels[i].owner = channels[j].owner) =>
            /\ channels[i].title[2] # channels[j].title[2]
            /\ channels[i].title # channels[j].title

\* A call of get_or_create_client ends on this step: it returns, or it raises.
GetClientReturns == pc = "connect" /\ pc' = "create_channel"
GetClientEnds == pc = "connect" /\ pc' # "connect"

\* C24: an entry of the registry is never replaced or removed; the registry
\* changes only when a call for an account without an entry returns, and then
\* only by the entry of that account, which is the client just built and
\* connected; a call that raises leaves the registry as it was; a call for an
\* account that has an entry builds no client, makes no call other than a
\* connect on that entry, and returns that entry; no client serves two accounts.
C24_RegistryIdempotent ==
    [][/\ \A a \in AccountIds :
             ACCOUNT_CLIENTS[a] # NoClient => ACCOUNT_CLIENTS'[a] = ACCOUNT_CLIENTS[a]
       /\ ACCOUNT_CLIENTS' # ACCOUNT_CLIENTS =>
             /\ GetClientReturns
             /\ ACCOUNT_CLIENTS[account_id] = NoClient
             /\ constructed'
             /\ ACCOUNT_CLIENTS' = [ACCOUNT_CLIENTS EXCEPT ![account_id] = client']
       /\ GetClientReturns =>
             /\ client' # NoClient
             /\ client' = ACCOUNT_CLIENTS'[account_id]
       /\ (GetClientEnds /\ ACCOUNT_CLIENTS[account_id] # NoClient) =>
             /\ ~constructed'
             /\ CallMade => lastCall'.op = "connect"
             /\ GetClientReturns => client' = ACCOUNT_CLIENTS[account_id]
       /\ \A a, b \in AccountIds :
             (a # b /\ ACCOUNT_CLIENTS'[a] # NoClient) => ACCOUNT_CLIENTS'[a] # ACCOUNT_CLIENTS'[b]]_vars

\* C24 happens: a later call for an account found its client disconnected,
\* reconnected it and returned the client that created the account's earlier
\* group, without building one.
C24_Witness ==
    /\ pc = "create_channel"
    /\ lastCall = [account_id |-> account_id, op |-> "connect", at |-> clock]
    /\ ~constructed
    /\ client # NoClient
    /\ client = ACCOUNT_CLIENTS[account_id]
    /\ \E c \in 1..Len(channels) :
          /\ channels[c].owner = account_id
          /\ channels[c].client = client
          /\ channels[c].tick < now

\* C25: the counter of every account stays within MAX_GROUPS_PER_ACCOUNT.
C25_CounterWithinCap ==
    \A a \in AccountIds : OrZero(db[a].created_groups_count) <= MAX_GROUPS_PER_ACCOUNT

\* C25 happens: in one tick the first account, at the cap, was skipped, and
\* the second account, fetched one below the cap, completed an action that
\* took its counter to the cap.
C25_Witness ==
    /\ pc = "loop" /\ Len(accounts) = 2 /\ index = 3
    /\ Evaluate(accounts[1], now) = "quota_reached"
    /\ db[accounts[1].id].created_groups_count = MAX_GROUPS_PER_ACCOUNT
    /\ accounts[2].created_groups_count = MAX_GROUPS_PER_ACCOUNT - 1
    /\ db[accounts[2].id].created_groups_count = MAX_GROUPS_PER_ACCOUNT
    /\ lastCall.account_id = accounts[2].id
    /\ lastCall.at > now

\* C26: any two groups created on the remote platform by the same account
\* belong to different ticks, whose timestamps are at least GROUP_INTERVAL
\* apart.
C26_CreationsSpaced ==
    \A i, j \in 1..Len(channels) :
        (i < j /\ channels[i].owner = channels[j].owner) =>
            /\ channels[i].tick # channels[j].tick
            /\ channels[j].tick - channels[i].tick >= GROUP_INTERVAL

\* C27: while the run-state is Running, the step that examines an account of
\* the tick's list does not abandon the accounts after it: it passes on to the
\* next account or starts the action of this one.
C27_ExaminationContinues ==
    [][(pc = "loop" /\ index <= Len(accounts) /\ SCHEDULER_RUNNING) =>
          pc' \in {"loop", "connect"}]_vars

\* What the run that violates C27 goes on to: as long as no administrator
\* intervenes, the account behind the unreadable row, active and eligible at
\* every tick, is never examined and never acts, tick after tick.
StarvedBehindUnreadable ==
    (db[1] = UnreadableFirstDb[1] /\ db[2] = FreshRow /\ adminOps = 0) =>
        /\ SCHEDULER_RUNNING
        /\ verdict.row.id # 2
        /\ lastCall.account_id # 2
        /\ channels = <<>>
        /\ index = 1

\* Ticks of such a run: the loop is abandoned at the first account once more
\* at time 3 * RECOVERY_SLEEP.
StarvedTicks ==
    /\ db[1] = UnreadableFirstDb[1] /\ db[2] = FreshRow /\ adminOps = 0 /\ faults = 0
    /\ pc = "main_log" /\ now = 3 * RECOVERY_SLEEP
    /\ verdict = [row |-> accounts[1], now |-> now, result |-> "raised"]
    /\ Len(accounts) = 2 /\ Evaluate(accounts[2], now) = "eligible"

\* C28: now changes only where the tick starts, to the time of that moment,
\* and never lies ahead of the clock; a group row is inserted with
\* created_at = now, and a completed action leaves last_group_created_at =
\* now; both are no later than the time at which the group was created on
\* the remote platform.
C28_TickTimestamp ==
    [][/\ now' # now => (pc = "sync_accounts" /\ now' = clock)
       /\ now' <= clock'
       /\ Len(groups') = Len(groups) + 1 =>
             /\ groups'[Len(groups')].created_at = now
             /\ groups'[Len(groups')].created_at <= channels[channel].at
       /\ (pc = "update_activity" /\ pc' = "update_messages" /\ db'[account_id].exists) =>
             /\ db'[account_id].last_group_created_at = now
             /\ db'[account_id].last_group_created_at <= channels[channel].at]_vars

\* C28 happens: the first account of the tick ran into a rate-limit pause, the
\* second account created its group after the pause, and the row of that
\* group carries the tick's start time, earlier than the real creation.
C28_Witness ==
    /\ pc = "send" /\ index = 2
    /\ flood.account_id = accounts[1].id /\ flood.tick = now /\ flood.until > now
    /\ group_db_id \in 1..Len(groups)
    /\ groups[group_db_id].account_id = accounts[2].id
    /\ groups[group_db_id].created_at = now
    /\ channels[channel].owner = accounts[2].id
    /\ channels[channel].at = flood.until
    /\ groups[group_db_id].created_at < channels[channel].at

====
